---- MODULE Spec2Model ----
(***************************************************************************)
(* Price-history synchronisation and local caching engine of fbinv         *)
(* (investment/datasource).  The model follows BaseDataSource in           *)
(* investment/datasource/base.py, the provider overrides of                *)
(* _default_start_and_end_date, Security.get_file_path and the Twelve Data *)
(* rate limiter.                                                           *)
(*                                                                         *)
(* A cached table is a sequence of rows <<as_of_date, value>>; `value`     *)
(* stands for the whole tuple of data columns (open, high, low, close) of  *)
(* a row.  Dates are day numbers.  A remote fetch is a step of its own:    *)
(* the handler is suspended while the provider adapter answers.            *)
(***************************************************************************)
EXTENDS Integers, Sequences, FiniteSets, TLC

\* ------------------------------------------------------------------ bounds
\* Last day of the calendar of the model; it is "yesterday".
MaxDate == 4
\* Last second of the clock of the rate-limiter runs.
MaxTime == 125
\* Most positional columns a csv file gathers before it is left alone.
MaxUnnamed == 2
\* Last day a range handed to _get_dates starts on.
MaxStartDay == 6

\* --------------------------------------------------------------- constants
\* utils/consts.py: DATA_START_DATE, the first day of the calendar.
DATA_START_DATE == 1
\* twelve_data.py: max_requests_per_minute
max_requests_per_minute == 8
\* twelve_data.py: the window of one minute, in seconds
WindowSeconds == 60
\* twelve_data.py: output_size, the most data points of one request
output_size == 5000
\* datetime.timedelta(days=1), in minutes
DayMinutes == 1440

Dates == DATA_START_DATE..MaxDate
\* today_midnight(): the day after the last day of the calendar
today_midnight == MaxDate + 1
\* The distinct tuples of data columns a row can carry.
Vals == {"v1", "v2"}

Row(d, v) == [as_of_date |-> d, value |-> v]
Rows == {Row(d, v) : d \in Dates, v \in Vals}

all_datasource ==
  {"alpha_vantage", "bloomberg", "financial_times", "local", "open_figi",
   "twelve_data", "yahoo_finance"}

\* ----------------------------------------------------- pandas operations
RECURSIVE SeqMin(_), SeqMax(_)
\* min(df["as_of_date"]) of a non-empty table
SeqMin(t) ==
  IF Len(t) = 1 THEN t[1].as_of_date
  ELSE LET m == SeqMin(Tail(t)) IN IF t[1].as_of_date < m THEN t[1].as_of_date ELSE m
\* max(df["as_of_date"]) of a non-empty table
SeqMax(t) ==
  IF Len(t) = 1 THEN t[1].as_of_date
  ELSE LET m == SeqMax(Tail(t)) IN IF t[1].as_of_date > m THEN t[1].as_of_date ELSE m

DatesOf(t) == {t[i].as_of_date : i \in 1..Len(t)}
RowsOf(t) == {t[i] : i \in 1..Len(t)}

\* Index.is_monotonic_increasing (ties allowed)
IsMonotonic(t) == \A i \in 1..(Len(t) - 1) : t[i].as_of_date <= t[i + 1].as_of_date

RemoveAt(t, i) == SubSeq(t, 1, i - 1) \o SubSeq(t, i + 1, Len(t))

RECURSIVE SortedOrders(_)
\* Every ordering of the rows of t by ascending date: the order of rows that
\* share a date is not fixed by an unstable sort.
SortedOrders(t) ==
  IF t = <<>> THEN {<<>>}
  ELSE LET m == SeqMin(t)
       IN UNION {{<<t[i]>> \o r : r \in SortedOrders(RemoveAt(t, i))} :
                 i \in {j \in 1..Len(t) : t[j].as_of_date = m}}

\* DataFrame.sort_index(): a monotonic index is returned as it is, any other
\* is sorted with the default (unstable) quicksort.
sort_index(t) == IF IsMonotonic(t) THEN {t} ELSE SortedOrders(t)

\* Mutant: nothing is dropped.
drop_duplicates_none(t) == t

RECURSIVE drop_duplicates_from(_, _)
drop_duplicates_from(t, seen) ==
  IF t = <<>> THEN <<>>
  ELSE IF t[1].value \in seen THEN drop_duplicates_from(Tail(t), seen)
  ELSE <<t[1]>> \o drop_duplicates_from(Tail(t), seen \cup {t[1].value})
\* DataFrame.drop_duplicates() after set_index("as_of_date"): rows are
\* compared on their columns only, the index (the date) takes no part, and
\* the first of equal rows is kept.
drop_duplicates(t) == drop_duplicates_from(t, {})

RECURSIVE concat(_)
\* pd.concat of a list of tables
concat(li) == IF li = <<>> THEN <<>> ELSE li[1] \o concat(Tail(li))

\* A DataFrame of a time series: its index is the as_of_date column (after
\* set_index) or a RangeIndex, `unnamed` counts its positional columns
\* ("Unnamed: 0", ...), `rows` are its rows.  pd.DataFrame() is EmptyFrame.
Frame(index, unnamed, rows) == [index |-> index, unnamed |-> unnamed, rows |-> rows]
EmptyFrame == Frame("RangeIndex", 0, <<>>)
\* df.reset_index(drop=True).set_index("as_of_date")
set_index(df) == Frame("as_of_date", df.unnamed, df.rows)
\* The text of a csv file: `unnamed` counts the columns with an empty header
\* in front of as_of_date.
File(unnamed, rows) == [unnamed |-> unnamed, rows |-> rows]
\* df.to_csv(file_path, index=True): the index is written as the first
\* column, a RangeIndex under an empty header.
to_csv(df) ==
  File(IF df.index = "RangeIndex" THEN df.unnamed + 1 ELSE df.unnamed, df.rows)
\* pd.read_csv(file_path, parse_dates=["as_of_date"]): every column of the
\* file is a column of the table, the index is a new RangeIndex.
read_csv(f) == Frame("RangeIndex", f.unnamed, f.rows)

\* ------------------------------------------------------------- securities
None == <<>>
StrNone == <<"N", "o", "n", "e">>
RECURSIVE replace_slash(_)
\* str.replace("/", "")
replace_slash(s) ==
  IF s = <<>> THEN <<>>
  ELSE IF s[1] = "/" THEN replace_slash(Tail(s))
  ELSE <<s[1]>> \o replace_slash(Tail(s))

\* The categories of ts_method_dict
ts_method_dict == {"currency_cross", "equity", "etf", "fund"}

Security(code, entity_type, provider_code) ==
  [code |-> code, entity_type |-> entity_type, provider_code |-> provider_code]

SecAAA == Security(<<"A", "A", "A">>, "equity", <<"A", "A", "A">>)
SecCMP == Security(<<"A", "A", "A", "_", "E">>, "composite", <<"A", "A", "A">>)
SecNOS == Security(<<"N", "O", "S">>, "fund", None)

VARIABLES
  self_name,        \* name of the datasource instance
  securities,       \* LocalDataSource().get_all_securities(as_instance=True)
  cache,            \* the cache files: file path -> table
  call,             \* the get_price_history call in progress or last made
  bulk,             \* the update_price_history run in progress or last made
  probe,            \* the last direct call of a helper and its result
  mapping,          \* the security mapping files: datasource name -> table
  window_start,     \* TwelveDataDataSource.window_start
  request_counter,  \* TwelveDataDataSource.request_counter
  now,              \* the clock, in seconds
  admitted          \* times of the admissions of the last WindowSeconds

vars == <<self_name, securities, cache, call, bulk, probe, mapping,
          window_start, request_counter, now, admitted>>
syncVars == <<self_name, securities, cache, call, bulk>>
rateVars == <<window_start, request_counter, now, admitted>>

\* getattr(security, self.internal_mapping_code, None): Security has no
\* local_code and no open_figi_code attribute.
internal_mapping_code(security) ==
  IF self_name \in {"local", "open_figi"} THEN None ELSE security.provider_code

\* Security.get_file_path: the directories and the file name of the path.
\* security.provider_code is the <datasource_name>_code attribute.
get_file_path(security, datasource_name, intraday, series_type) ==
  LET _code == IF datasource_name = "local" THEN <<"c", "o", "d", "e">>
               ELSE IF datasource_name = "open_figi"
                      THEN <<"f", "i", "g", "i", "_", "c", "o", "d", "e">>
               ELSE security.provider_code
      code == IF _code # None THEN replace_slash(_code) ELSE StrNone
      data_frequency == IF intraday THEN "intraday" ELSE "daily"
  IN <<series_type, datasource_name, security.entity_type,
       code, data_frequency, series_type>>

\* The path _read_timeseries_from_local and _write_timeseries_to_local ask
\* for: the daily price history under the name of the instance.
price_history_path(security) ==
  get_file_path(security, self_name, FALSE, "price_history")

\* _read_timeseries_from_local: the empty table when the file does not exist
_read_timeseries_from_local(security) ==
  IF price_history_path(security) \in DOMAIN cache
    THEN read_csv(cache[price_history_path(security)]) ELSE EmptyFrame

\* _write_timeseries_to_local: the file is replaced as a whole
_write_timeseries_to_local(security, df) ==
  [p \in DOMAIN cache \cup {price_history_path(security)} |->
     IF p = price_history_path(security) THEN to_csv(df) ELSE cache[p]]

\* ------------------------------------------------------ get_price_history
\* kwargs of get_price_history: start_date and end_date, each optional
\* (an end_date that is given is the day before yesterday).
KeywordArgs ==
  {kw \in UNION {[keys -> Dates] : keys \in SUBSET {"start_date", "end_date"}} :
     "end_date" \in DOMAIN kw => kw["end_date"] = MaxDate - 1}
\* dict.get(key, default)
kwargs_get(kwargs, key, default) ==
  IF key \in DOMAIN kwargs THEN kwargs[key] ELSE default

\* The result of _check_start_date_for_security: the earliest date of the
\* Twelve Data mapping for the symbol, or None when the mapping has no date
\* for it, or the IndexError of .iloc[0] when the mapping, refreshed, has no
\* row for the symbol.
Lookup(error, dates) == [error |-> error, dates |-> dates]
\* None where a date is expected: the default of full_update's start_date
NoneDate == 0
NoLookup == Lookup("none", {})
EarliestDates ==
  {NoLookup, Lookup("none", {DATA_START_DATE}), Lookup("IndexError", {})}

DateRange(start, end) == [start_date |-> start, end_date |-> end]

\* BaseDataSource._default_start_and_end_date
base_default_start_and_end_date(kwargs) ==
  [raised |-> "none",
   start_date |-> kwargs_get(kwargs, "start_date", DATA_START_DATE),
   end_date |-> kwargs_get(kwargs, "end_date", today_midnight - 1)]

\* YahooFinanceDataSource._default_start_and_end_date
yahoo_default_start_and_end_date(df, kwargs) ==
  IF df = <<>> THEN base_default_start_and_end_date(kwargs)
  ELSE [raised |-> "none", start_date |-> SeqMin(df), end_date |-> today_midnight - 1]

\* AlphaVantageDataSource._default_start_and_end_date
alpha_default_start_and_end_date(df, kwargs) ==
  IF df = <<>> THEN base_default_start_and_end_date(kwargs)
  ELSE [raised |-> "none", start_date |-> SeqMin(df), end_date |-> today_midnight]

\* TwelveDataDataSource._default_start_and_end_date
twelve_default_start_and_end_date(kwargs, earliest) ==
  IF earliest.error # "none"
    THEN [raised |-> earliest.error,
          start_date |-> DATA_START_DATE, end_date |-> DATA_START_DATE]
  ELSE IF kwargs_get(kwargs, "start_date",
                      IF earliest.dates = {} THEN NoneDate
                      ELSE CHOOSE d \in earliest.dates : TRUE) = NoneDate
    THEN [raised |-> "TwelveDataException",
          start_date |-> DATA_START_DATE, end_date |-> DATA_START_DATE]
  ELSE [raised |-> "none",
        start_date |-> IF "start_date" \in DOMAIN kwargs THEN kwargs["start_date"]
                       ELSE CHOOSE d \in earliest.dates : TRUE,
        end_date |-> kwargs_get(kwargs, "end_date", today_midnight - 1)]

\* self._default_start_and_end_date of the instance
_default_start_and_end_date(df, kwargs, earliest) ==
  CASE self_name = "yahoo_finance" -> yahoo_default_start_and_end_date(df, kwargs)
    [] self_name = "alpha_vantage" -> alpha_default_start_and_end_date(df, kwargs)
    [] self_name = "twelve_data" -> twelve_default_start_and_end_date(kwargs, earliest)
    [] OTHER -> base_default_start_and_end_date(kwargs)

\* Mutant: the lower gap is found missing when the cache starts on the
\* desired start.
lower_bound_missing_inclusive(df, start_date) == SeqMin(df) >= start_date

lower_bound_missing(df, start_date) == SeqMin(df) > start_date
upper_bound_missing(df, end_date) == SeqMax(df) < end_date

\* Mutant: the gaps leave the cached boundary dates out.
GapRanges_half_open(df, start_date, end_date) ==
  IF df = <<>> THEN <<DateRange(start_date, end_date)>>
  ELSE (IF lower_bound_missing(df, start_date)
          THEN <<DateRange(start_date, SeqMin(df) - 1)>> ELSE <<>>)
       \o
       (IF upper_bound_missing(df, end_date)
          THEN <<DateRange(SeqMax(df) + 1, end_date)>> ELSE <<>>)

\* The date ranges _load_price_history_from_remote hands to
\* _get_price_history_from_remote, in order.
GapRanges(df, start_date, end_date) ==
  IF df = <<>> THEN <<DateRange(start_date, end_date)>>
  ELSE (IF lower_bound_missing(df, start_date)
          THEN <<DateRange(start_date, SeqMin(df))>> ELSE <<>>)
       \o
       (IF upper_bound_missing(df, end_date)
          THEN <<DateRange(SeqMax(df), end_date)>> ELSE <<>>)

\* Mutant: the clause for the provider exceptions is missing.
IsCaught_method_only(error) == error = "DataSourceMethodException"
\* Mutant: a bare except.
IsCaught_everything(error) == TRUE

\* The except clauses of _load_price_history_from_remote
IsCaught(error) ==
  error \in {"DataSourceMethodException", "AlphaVantageException", "TwelveDataException"}

Reply(error, rows) == [error |-> error, rows |-> rows]
\* A table a provider returns for one fetch, already in the common format.
RemoteTables == {<<>>} \cup {<<r>> : r \in Rows}
\* What the _get_<category>_price_history_from_remote method of the instance
\* can do: return a table or raise.
AdapterOutcomes ==
  CASE self_name = "alpha_vantage" ->
         {Reply("none", t) : t \in RemoteTables}
         \cup {Reply("AlphaVantageException", <<>>), Reply("ConnectionError", <<>>)}
    [] self_name \in {"twelve_data", "yahoo_finance"} ->
         {Reply("none", t) : t \in RemoteTables}
    [] OTHER -> {Reply("DataSourceMethodException", <<>>)}

NoCall ==
  [phase |-> "idle", security |-> SecAAA, intraday |-> FALSE, local_only |-> FALSE,
   df_local |-> <<>>, existed |-> FALSE, desired |-> <<>>, todo |-> <<>>,
   dispatched |-> <<>>, failed |-> <<>>, df_to_concat |-> <<>>, error |-> "none",
   outcome |-> "none", returned |-> <<>>, wrote |-> FALSE, before |-> <<>>]

\* The exception leaves get_price_history.
Raise(c, error) ==
  /\ call' = [c EXCEPT !.phase = "done", !.outcome = error, !.todo = <<>>]
  /\ UNCHANGED cache

\* Mutant: the merged table is written whether it has rows or not.
Merge_write_empty(c, df_remote) ==
  LET df == IF df_remote # <<>> THEN df_remote \o c.df_local ELSE c.df_local
  IN \E sorted \in sort_index(df) :
       /\ call' = [c EXCEPT !.phase = "done", !.outcome = "returned", !.todo = <<>>,
                            !.returned = drop_duplicates(sorted), !.wrote = TRUE]
       /\ cache' = _write_timeseries_to_local(
                      c.security,
                      [set_index(EmptyFrame) EXCEPT !.rows = drop_duplicates(sorted)])

\* get_price_history from the merge on (base.py 87-102), df_remote being what
\* _load_price_history_from_remote returned.
Merge(c, df_remote) ==
  LET df == IF df_remote # <<>> THEN df_remote \o c.df_local ELSE c.df_local
  IN IF df = <<>>
       THEN /\ call' = [c EXCEPT !.phase = "done", !.outcome = "returned", !.todo = <<>>]
            /\ UNCHANGED cache
     ELSE \E sorted \in sort_index(df) :
            /\ call' = [c EXCEPT !.phase = "done", !.outcome = "returned", !.todo = <<>>,
                                 !.returned = drop_duplicates(sorted), !.wrote = TRUE]
            /\ cache' = _write_timeseries_to_local(
                           c.security,
                           [set_index(EmptyFrame) EXCEPT !.rows = drop_duplicates(sorted)])

\* An exception inside the try block of _load_price_history_from_remote
RaiseInLoad(c, error) ==
  IF IsCaught(error)
    THEN Merge([c EXCEPT !.error = error], concat(c.df_to_concat))
  ELSE Raise([c EXCEPT !.error = error], error)

\* _get_price_history_from_remote for the first range of todo
Dispatch(c, todo) ==
  LET d == [c EXCEPT !.todo = todo, !.dispatched = Append(c.dispatched, todo[1])]
  IN IF c.security.entity_type \notin ts_method_dict
       THEN RaiseInLoad([d EXCEPT !.failed = Append(c.failed, todo[1])], "KeyError")
     ELSE /\ call' = [d EXCEPT !.phase = "fetching"]
          /\ UNCHANGED cache

\* _load_price_history_from_remote up to its first fetch
Load(c, kwargs, earliest) ==
  IF internal_mapping_code(c.security) = None
    THEN Merge(c, c.df_local)
  ELSE LET r == _default_start_and_end_date(c.df_local, kwargs, earliest)
       IN IF r.raised # "none" THEN RaiseInLoad(c, r.raised)
          ELSE IF r.start_date = NoneDate /\ c.df_local # <<>>
            THEN RaiseInLoad([c EXCEPT !.desired = <<DateRange(r.start_date, r.end_date)>>],
                             "TypeError")
          ELSE LET todo == GapRanges(c.df_local, r.start_date, r.end_date)
                   d == [c EXCEPT !.desired = <<DateRange(r.start_date, r.end_date)>>]
               IN IF todo = <<>> THEN Merge(d, <<>>) ELSE Dispatch(d, todo)

\* get_price_history after the intraday check, up to its first fetch
ReadAndLoad(c, kwargs, earliest) ==
  LET d == [c EXCEPT !.df_local = _read_timeseries_from_local(c.security).rows,
                     !.existed = price_history_path(c.security) \in DOMAIN cache]
  IN IF c.local_only THEN Merge(d, <<>>) ELSE Load(d, kwargs, earliest)

\* Mutant: the intraday check is missing.
Enter_without_intraday_check(security, intraday, local_only, kwargs, earliest) ==
  ReadAndLoad([NoCall EXCEPT !.security = security, !.intraday = intraday,
                             !.local_only = local_only, !.before = cache],
              kwargs, earliest)

\* get_price_history up to its first fetch
Enter(security, intraday, local_only, kwargs, earliest) ==
  LET c == [NoCall EXCEPT !.security = security, !.intraday = intraday,
                          !.local_only = local_only, !.before = cache]
  IN IF intraday THEN Raise(c, "DataSourceMethodException")
     ELSE ReadAndLoad(c, kwargs, earliest)

\* The adapter answers the fetch in flight and the handler runs on to its
\* next fetch or to its end.
Answer(reply) ==
  LET c == call
  IN IF reply.error # "none"
       THEN RaiseInLoad([c EXCEPT !.failed = Append(c.failed, c.todo[1])], reply.error)
     ELSE LET d == [c EXCEPT !.df_to_concat = Append(c.df_to_concat, reply.rows)]
          IN IF Len(c.todo) > 1 THEN Dispatch(d, Tail(c.todo))
             ELSE Merge(d, concat(d.df_to_concat))

\* The earliest dates a call can find in the mapping of the instance: only
\* Twelve Data looks one up.
EarliestChoices == IF self_name = "twelve_data" THEN EarliestDates ELSE {NoLookup}

\* A caller calls get_price_history of the datasource.  The keyword
\* arguments are read by _default_start_and_end_date alone, which an intraday
\* or local_only call does not reach.
GetPriceHistory ==
  /\ call.phase # "fetching"
  /\ bulk.status # "running"
  /\ \E i \in 1..Len(securities) :
       \/ \E local_only \in BOOLEAN : Enter(securities[i], TRUE, local_only, <<>>, NoLookup)
       \/ Enter(securities[i], FALSE, TRUE, <<>>, NoLookup)
       \/ \E kwargs \in KeywordArgs, earliest \in EarliestChoices :
            Enter(securities[i], FALSE, FALSE, kwargs, earliest)
  /\ UNCHANGED <<self_name, securities, bulk, probe, mapping, rateVars>>

AdapterReply ==
  /\ call.phase = "fetching"
  /\ \E reply \in IF self_name = "yahoo_finance" /\ call.todo[1].start_date = NoneDate
                    THEN {Reply("AttributeError", <<>>)}
                  ELSE AdapterOutcomes :
       Answer(reply)
  /\ UNCHANGED <<self_name, securities, bulk, probe, mapping, rateVars>>

\* ---------------------------------------------------- update_price_history
NoBulk == [status |-> "idle", idx |-> 1, waiting |-> FALSE, di |-> <<>>,
           intraday |-> FALSE, local_only |-> FALSE, kwargs |-> <<>>,
           error |-> "none"]

\* Mutant: the map records df.empty.
di_set_empty(di, code, value) ==
  [k \in DOMAIN di \cup {code} |-> IF k = code THEN ~value ELSE di[k]]

\* di[security.code] = not df.empty
di_set(di, code, value) ==
  [k \in DOMAIN di \cup {code} |-> IF k = code THEN value ELSE di[k]]

\* update_price_history is called: the list of securities is read and the
\* loop is entered.
UpdatePriceHistory ==
  /\ bulk.status # "running"
  /\ call.phase # "fetching"
  /\ \E intraday \in BOOLEAN, local_only \in BOOLEAN, kwargs \in KeywordArgs :
       bulk' = [NoBulk EXCEPT
                  !.status = IF Len(securities) = 0 THEN "returned" ELSE "running",
                  !.intraday = intraday, !.local_only = local_only, !.kwargs = kwargs]
  /\ UNCHANGED <<self_name, securities, cache, call, probe, mapping, rateVars>>

\* The loop body calls get_price_history for the next security.
UpdateCall ==
  /\ bulk.status = "running"
  /\ ~bulk.waiting
  /\ \E earliest \in EarliestChoices :
       Enter(securities[bulk.idx], bulk.intraday, bulk.local_only, bulk.kwargs, earliest)
  /\ bulk' = [bulk EXCEPT !.waiting = TRUE]
  /\ UNCHANGED <<self_name, securities, probe, mapping, rateVars>>

\* get_price_history has ended: its result is recorded and the loop goes on,
\* or its exception leaves update_price_history.
UpdateRecord ==
  /\ bulk.status = "running"
  /\ bulk.waiting
  /\ call.phase = "done"
  /\ bulk' =
       IF call.outcome = "returned"
         THEN [bulk EXCEPT
                 !.waiting = FALSE,
                 !.di = di_set(bulk.di, call.security.code, call.returned # <<>>),
                 !.idx = bulk.idx + 1,
                 !.status = IF bulk.idx = Len(securities) THEN "returned" ELSE "running"]
       ELSE [bulk EXCEPT !.waiting = FALSE, !.status = "raised", !.error = call.outcome]
  /\ UNCHANGED <<self_name, securities, cache, call, probe, mapping, rateVars>>

\* ------------------------------------------------------ _respect_rate_limit
\* The admissions of the last WindowSeconds seconds at time t: two admissions
\* lie in one interval of WindowSeconds seconds when they are less than
\* WindowSeconds apart.
Recent(times, t) == SelectSeq(times, LAMBDA a : t - a < WindowSeconds)

\* The seconds that pass between two calls of the limiter.
TickSteps == {WindowSeconds \div 2, WindowSeconds - 1}
\* sleep() may return late.
SleepOvershoot == {0, 1}

\* Time passes.
Tick ==
  /\ \E d \in TickSteps :
       /\ now + d <= MaxTime
       /\ now' = now + d
  /\ admitted' = Recent(admitted, now')
  /\ UNCHANGED <<window_start, request_counter, syncVars, probe, mapping>>

\* Mutant: the counter may pass the maximum by one before the call sleeps.
_respect_rate_limit_off_by_one(ws, rc, t) ==
  LET expired == t - ws >= WindowSeconds
      start1 == IF expired THEN t ELSE ws
      counter1 == IF expired THEN 0 ELSE rc
      full == counter1 > max_requests_per_minute
      time_to_wait == WindowSeconds - (t - start1)
  IN {[woke |-> IF full /\ time_to_wait > 0 THEN t + time_to_wait + late ELSE t + late,
       window_start |-> IF full
                          THEN (IF time_to_wait > 0 THEN t + time_to_wait + late ELSE t + late)
                        ELSE start1,
       request_counter |-> (IF full THEN 0 ELSE counter1) + 1,
       slept |-> full /\ time_to_wait > 0] :
        late \in IF full THEN SleepOvershoot ELSE {0}}

\* _respect_rate_limit called at time t with the class attributes ws
\* (window_start) and rc (request_counter): the time it returns at and the
\* attributes it leaves.
_respect_rate_limit(ws, rc, t) ==
  LET expired == t - ws >= WindowSeconds
      start1 == IF expired THEN t ELSE ws
      counter1 == IF expired THEN 0 ELSE rc
      full == counter1 >= max_requests_per_minute
      time_to_wait == WindowSeconds - (t - start1)
  IN {[woke |-> IF full /\ time_to_wait > 0 THEN t + time_to_wait + late ELSE t + late,
       window_start |-> IF full
                          THEN (IF time_to_wait > 0 THEN t + time_to_wait + late ELSE t + late)
                        ELSE start1,
       request_counter |-> (IF full THEN 0 ELSE counter1) + 1,
       slept |-> full /\ time_to_wait > 0] :
        late \in IF full THEN SleepOvershoot ELSE {0}}

\* TwelveDataDataSource._respect_rate_limit, followed by the outbound request
\* it admits.
RespectRateLimit ==
  \E r \in _respect_rate_limit(window_start, request_counter, now) :
     /\ r.woke <= MaxTime
     /\ now' = r.woke
     /\ window_start' = r.window_start
     /\ request_counter' = r.request_counter
     /\ admitted' = Append(Recent(admitted, r.woke), r.woke)
     /\ UNCHANGED <<syncVars, probe, mapping>>

InitRate ==
  /\ window_start = 0
  /\ request_counter = 0
  /\ now = 0
  /\ admitted = <<>>

\* No helper has been called directly.
NoProbe == [op |-> "none"]

\* ------------------------------------------------- update_security_mapping
\* registry.py: all_datasource, in its order
datasource_order ==
  <<"alpha_vantage", "bloomberg", "financial_times", "local", "open_figi",
    "twelve_data", "yahoo_finance">>

\* The security mapping of the local datasource: a row per security.
LocalMapping == <<"AAA", "AAA_E", "NOS">>
\* The mapping file of a remote datasource as an earlier refresh left it.
OldMapping == <<"AAA">>
InitMapping == [name \in all_datasource |->
                  IF name = "local" THEN LocalMapping ELSE OldMapping]

\* What _update_security_mapping(df) of a datasource can do: raise, or return
\* a table.  OpenFIGI and Twelve Data return a row per row of df or fail on a
\* request, Yahoo Finance skips the securities whose lookup fails.
MappingOutcomes(name, df) ==
  CASE name \in {"alpha_vantage", "bloomberg", "financial_times", "local"} ->
         {Reply("DataSourceMethodException", <<>>)}
    [] name \in {"open_figi", "twelve_data"} ->
         {Reply("none", df), Reply("RuntimeError", <<>>)}
    [] OTHER -> {Reply("none", SubSeq(df, 1, n)) : n \in 0..Len(df)}

\* Mutant: update_security_mapping has no except clause.
IsMappingCaught_nothing(error) == FALSE

\* The except clause of update_security_mapping
IsMappingCaught(error) == error = "DataSourceMethodException"

\* update_security_mapping of the datasource `name`, _update_security_mapping
\* answering with `reply`: the exception that leaves it, the table it
\* returns, the mapping files after it.
update_security_mapping(name, reply) ==
  IF reply.error = "none"
    THEN [raised |-> "none", df |-> reply.rows,
          files |-> [mapping EXCEPT ![name] = reply.rows]]
  ELSE IF IsMappingCaught(reply.error)
    THEN [raised |-> "none", df |-> <<>>, files |-> mapping]
  ELSE [raised |-> reply.error, df |-> <<>>, files |-> mapping]

MappingProbe(op, status, idx, di, name, r) ==
  [op |-> op, status |-> status, idx |-> idx, di |-> di, name |-> name,
   raised |-> r.raised, df |-> r.df, before |-> mapping]

\* update_security_mapping() of the instance is called.
UpdateSecurityMapping ==
  /\ probe.op = "update_all_security_mapping" => probe.status # "running"
  /\ \E reply \in MappingOutcomes(self_name, mapping["local"]) :
       LET r == update_security_mapping(self_name, reply)
       IN /\ mapping' = r.files
          /\ probe' = MappingProbe("update_security_mapping",
                                   IF r.raised = "none" THEN "returned" ELSE "raised",
                                   1, <<>>, self_name, r)
  /\ UNCHANGED <<self_name, securities, cache, call, bulk, rateVars>>

\* update_all_security_mapping() is called and enters its loop.
UpdateAllSecurityMapping ==
  /\ probe.op = "update_all_security_mapping" => probe.status # "running"
  /\ probe' = [op |-> "update_all_security_mapping", status |-> "running",
               idx |-> 1, di |-> <<>>, name |-> "none", raised |-> "none",
               df |-> <<>>, before |-> mapping]
  /\ UNCHANGED <<self_name, securities, cache, call, bulk, mapping, rateVars>>

\* One turn of the loop of update_all_security_mapping: the next datasource
\* is instantiated and its update_security_mapping() is called.
UpdateAllStep ==
  /\ probe.op = "update_all_security_mapping"
  /\ probe.status = "running"
  /\ LET name == datasource_order[probe.idx]
     IN \E reply \in MappingOutcomes(name, mapping["local"]) :
          LET r == update_security_mapping(name, reply)
          IN /\ mapping' = r.files
             /\ probe' =
                  IF r.raised # "none"
                    THEN MappingProbe("update_all_security_mapping", "raised",
                                      probe.idx, probe.di, name, r)
                  ELSE MappingProbe("update_all_security_mapping",
                                    IF probe.idx = Len(datasource_order)
                                      THEN "returned" ELSE "running",
                                    probe.idx + 1,
                                    di_set(probe.di, name, r.df # <<>>), name, r)
  /\ UNCHANGED <<self_name, securities, cache, call, bulk, rateVars>>


Init ==
  /\ self_name \in all_datasource
  /\ securities = <<SecAAA, SecCMP, SecNOS>>
  /\ cache = <<>>
  /\ call = NoCall
  /\ bulk = NoBulk
  /\ probe = NoProbe
  /\ mapping = InitMapping
  /\ InitRate

Next == GetPriceHistory \/ AdapterReply

Spec == Init /\ [][Next]_vars

NextBulk == UpdatePriceHistory \/ UpdateCall \/ AdapterReply \/ UpdateRecord

SpecBulk == Init /\ [][NextBulk]_vars

\* ------------------------------------------------------------ full_update
\* full_update(start_date, intraday) is called: update_security_mapping runs
\* and, unless it raised, update_price_history(start_date=start_date,
\* intraday=intraday) enters its loop.
FullUpdate ==
  /\ bulk.status # "running"
  /\ call.phase # "fetching"
  /\ \E start_date \in {NoneDate, MaxDate - 1}, intraday \in BOOLEAN,
        reply \in MappingOutcomes(self_name, mapping["local"]) :
       LET r == update_security_mapping(self_name, reply)
       IN /\ mapping' = r.files
          /\ probe' = [op |-> "full_update",
                       pc |-> IF r.raised = "none" THEN "loop" ELSE "raised",
                       start_date |-> start_date, df_mapping |-> r.df]
          /\ bulk' = IF r.raised # "none" THEN NoBulk
                     ELSE [NoBulk EXCEPT
                             !.status = IF Len(securities) = 0 THEN "returned"
                                        ELSE "running",
                             !.intraday = intraday,
                             !.kwargs = [k \in {"start_date"} |-> start_date]]
  /\ UNCHANGED <<self_name, securities, cache, call, rateVars>>

\* update_price_history has ended: full_update adds the security_mapping
\* entry and returns, or is left by the exception.
FullReturn ==
  /\ probe.op = "full_update"
  /\ probe.pc = "loop"
  /\ bulk.status \in {"returned", "raised"}
  /\ probe' = [probe EXCEPT !.pc = bulk.status]
  /\ bulk' = IF bulk.status = "raised" THEN bulk
             ELSE [bulk EXCEPT !.di = di_set(bulk.di, <<"security_mapping">>,
                                             Len(probe.df_mapping) = Len(securities))]
  /\ UNCHANGED <<self_name, securities, cache, call, mapping, rateVars>>

NextFull ==
  \/ FullUpdate
  \/ UpdateCall
  \/ UpdateRecord
  \/ AdapterReply
  \/ FullReturn

SpecFull == Init /\ [][NextFull]_vars

NextMapping == UpdateSecurityMapping \/ UpdateAllSecurityMapping \/ UpdateAllStep

SpecMapping == Init /\ [][NextMapping]_vars

\* The tables of a price-history file that was put on disk by hand, as the
\* files of the local datasource are: any rows in any order.
SeedDates == {DATA_START_DATE + 1, DATA_START_DATE + 2}
SeedRows == {Row(d, v) : d \in SeedDates, v \in Vals}
SeedTables == {<<r>> : r \in SeedRows} \cup {<<r1, r2>> : r1 \in SeedRows, r2 \in SeedRows}

\* The datasource starts over a data directory that already holds a
\* price-history file for the first security.
InitSeeded ==
  /\ self_name \in all_datasource
  /\ securities = <<SecAAA, SecCMP, SecNOS>>
  /\ \E t \in SeedTables : cache = [p \in {price_history_path(SecAAA)} |-> File(0, t)]
  /\ call = NoCall
  /\ bulk = NoBulk
  /\ probe = NoProbe
  /\ mapping = InitMapping
  /\ InitRate

SpecSeeded == InitSeeded /\ [][Next]_vars

\* ------------------------------------ get_price_history called twice over
\* A caller calls get_price_history for a daily series with the provider
\* allowed.
FirstCall ==
  /\ call.phase # "fetching"
  /\ \E i \in 1..Len(securities), kwargs \in KeywordArgs, earliest \in EarliestChoices :
       /\ Enter(securities[i], FALSE, FALSE, kwargs, earliest)
       /\ probe' = [op |-> "first", kwargs |-> kwargs, earliest |-> earliest]
  /\ UNCHANGED <<self_name, securities, bulk, mapping, rateVars>>

\* The caller makes the same call again, right after a call that returned
\* with every fetch it made answered.
RepeatCall ==
  /\ probe.op = "first"
  /\ call.phase = "done"
  /\ call.outcome = "returned"
  /\ call.dispatched # <<>>
  /\ call.failed = <<>>
  /\ Enter(call.security, FALSE, FALSE, probe.kwargs, probe.earliest)
  /\ probe' = [op |-> "repeat", kwargs |-> probe.kwargs, earliest |-> probe.earliest,
               security |-> call.security, desired |-> call.desired]
  /\ UNCHANGED <<self_name, securities, bulk, mapping, rateVars>>

NextRepeat == FirstCall \/ RepeatCall \/ AdapterReply

\* One instrument, no cache file yet.
InitRepeat ==
  /\ self_name \in all_datasource
  /\ securities = <<SecAAA>>
  /\ cache = <<>>
  /\ call = NoCall
  /\ bulk = NoBulk
  /\ probe = NoProbe
  /\ mapping = InitMapping
  /\ InitRate

SpecRepeat == InitRepeat /\ [][NextRepeat]_vars

InitLimiter ==
  /\ self_name = "twelve_data"
  /\ securities = <<SecAAA, SecCMP, SecNOS>>
  /\ cache = <<>>
  /\ call = NoCall
  /\ bulk = NoBulk
  /\ probe = NoProbe
  /\ mapping = InitMapping
  /\ InitRate

\* ------------------------------------------------- LocalDataSource._load
\* A null cell of a mapping table
NaN == "NaN"
\* Rows of security_mapping.csv and of portfolio_mapping.csv
MappingRow(code, type, name, currency) ==
  [code |-> code, type |-> type, name |-> name, currency |-> currency,
   reporting_currency |-> "USD"]
MappingRows ==
  {MappingRow(code, type, name, currency) :
     code \in {"AAA", "BBB"}, type \in {"equity", NaN},
     name \in {"n", NaN}, currency \in {"USD", "EUR"}}
\* The mapping tables: up to two rows, codes repeated or not
MappingTables ==
  {<<>>} \cup {<<r>> : r \in MappingRows}
  \cup {<<r1, r2>> : r1 \in MappingRows, r2 \in {r \in MappingRows : r.name = "n"}}

\* Mutant: the first of several rows is taken.
_load_first(df) ==
  IF Len(df) = 0 THEN [raised |-> "SecurityMappingError", di |-> <<>>]
  ELSE [raised |-> "none",
        di |-> [k \in {f \in DOMAIN df[1] : df[1][f] # NaN} |-> df[1][k]]]

\* LocalDataSource._load
_load(df) ==
  IF Len(df) > 1 THEN [raised |-> "SecurityMappingError", di |-> <<>>]
  ELSE IF Len(df) = 0 THEN [raised |-> "SecurityMappingError", di |-> <<>>]
  ELSE [raised |-> "none",
        di |-> [k \in {f \in DOMAIN df[1] : df[1][f] # NaN} |-> df[1][k]]]

\* df.loc[df.code == code]
select_code(df, code) == SelectSeq(df, LAMBDA r : r.code = code)

\* load_security up to _load: the left merge with the reporting-currency
\* table (here without a row for any pair) adds the multiplier column, which
\* is set to 1.0 where the two currencies are the same.
merge_reporting_currency(df) ==
  [i \in 1..Len(df) |->
     [k \in DOMAIN df[i] \cup {"multiplier"} |->
        IF k = "multiplier"
          THEN (IF df[i].reporting_currency = df[i].currency THEN "1.0" ELSE NaN)
        ELSE df[i][k]]]

\* The rows a load method hands to _load
selected_rows(op, df, code) ==
  IF op = "load_security" THEN select_code(merge_reporting_currency(df), code)
  ELSE select_code(df, code)

\* load_security, load_portfolio, load_generic_security: none has a try
\* block; load_generic_security looks the type up in security_registry and
\* calls what it finds.
load_method(op, df, code) ==
  LET r == _load(selected_rows(op, df, code))
  IN IF r.raised # "none" THEN r
     ELSE IF op # "load_generic_security" THEN r
     ELSE IF "type" \notin DOMAIN r.di
       THEN [raised |-> "TypeError", di |-> <<>>]
     ELSE [raised |-> "none", di |-> [k \in {"type"} |-> r.di["type"]]]

LoadOps == {"load_security", "load_portfolio", "load_generic_security"}

\* A load method of the local datasource is called for a code.
LoadEntity ==
  /\ \E op \in LoadOps, df \in MappingTables, code \in {"AAA", "BBB"} :
       LET r == load_method(op, df, code)
       IN probe' = [op |-> op, code |-> code,
                    selected |-> selected_rows(op, df, code),
                    raised |-> r.raised, di |-> r.di]
  /\ UNCHANGED <<self_name, securities, cache, call, bulk, mapping, rateVars>>

NextLoad == LoadEntity

InitLoad ==
  /\ self_name = "local"
  /\ securities = <<SecAAA, SecCMP, SecNOS>>
  /\ cache = <<>>
  /\ call = NoCall
  /\ bulk = NoBulk
  /\ probe = NoProbe
  /\ mapping = InitMapping
  /\ InitRate

SpecLoad == InitLoad /\ [][NextLoad]_vars

\* ------------------------------------------------------ _get_dates, directly
\* Times are minutes; a date is the minute of its midnight.
RECURSIVE get_dates_loop(_, _, _)
\* The while loop of _get_dates
get_dates_loop(current_start, shifted_end_date, delta) ==
  IF current_start <= shifted_end_date
    THEN LET current_end == IF current_start + delta < shifted_end_date
                              THEN current_start + delta ELSE shifted_end_date
         IN <<DateRange(current_start, current_end)>>
            \o get_dates_loop(current_end + DayMinutes, shifted_end_date, delta)
  ELSE <<>>

\* Mutant: a daily window is output_size days past its start.
_get_dates_one_day_more(start_date, end_date, intraday) ==
  get_dates_loop(start_date, end_date + 2 * DayMinutes,
                 IF intraday THEN output_size ELSE output_size * DayMinutes)

\* TwelveDataDataSource._get_dates
_get_dates(start_date, end_date, intraday) ==
  get_dates_loop(start_date, end_date + 2 * DayMinutes,
                 IF intraday THEN output_size ELSE (output_size - 1) * DayMinutes)

\* Lengths, in days, of the ranges handed to _get_dates: a few days, which
\* are several pages of output_size minutes, and for the daily frequency
\* about one page of output_size days and about two pages.
SpanDays(intraday) ==
  IF intraday THEN 0..5
  ELSE (0..5) \cup ((output_size - 4)..output_size)
       \cup {2 * output_size - 2, 2 * output_size}

\* _get_dates is called.
GetDates ==
  /\ \E intraday \in BOOLEAN, start_day \in 0..MaxStartDay :
     \E span \in SpanDays(intraday) :
       probe' = [op |-> "_get_dates",
                 start_date |-> start_day * DayMinutes,
                 end_date |-> (start_day + span) * DayMinutes,
                 intraday |-> intraday,
                 result |-> _get_dates(start_day * DayMinutes,
                                       (start_day + span) * DayMinutes, intraday)]
  /\ UNCHANGED <<self_name, securities, cache, call, bulk, mapping, rateVars>>

NextDates == GetDates

SpecDates == InitLimiter /\ [][NextDates]_vars

\* ------------------------------------------ _get_dates, one iteration a step
\* The largest output_size an instance is constructed with.
MaxOutputSize == 3

\* The longest range handed to the loop, in days.
MaxSpan == 3

\* Mutant: the next window starts where the last one ended.
next_start_same(current_end) == current_end

\* current_start = current_end + datetime.timedelta(days=1)
next_start(current_end) == current_end + DayMinutes

\* _get_dates is entered: result, current_start, shifted_end_date and delta
\* are set, for an instance constructed with its own output_size.
EnterGetDates ==
  /\ probe.op = "loop" => probe.pc = "returned"
  /\ \E size \in 1..MaxOutputSize, intraday \in BOOLEAN,
        start_day \in 0..1, span \in 0..MaxSpan :
       probe' = [op |-> "loop", pc |-> "while",
                 output_size |-> size, intraday |-> intraday,
                 start_date |-> start_day * DayMinutes,
                 end_date |-> (start_day + span) * DayMinutes,
                 result |-> <<>>,
                 current_start |-> start_day * DayMinutes,
                 shifted_end_date |-> (start_day + span) * DayMinutes + 2 * DayMinutes,
                 delta |-> IF intraday THEN size ELSE (size - 1) * DayMinutes]
  /\ UNCHANGED <<self_name, securities, cache, call, bulk, mapping, rateVars>>

\* The loop test and, when it holds, one pass through the body; the return
\* when it does not.
WhileGetDates ==
  /\ probe.op = "loop"
  /\ probe.pc = "while"
  /\ IF probe.current_start <= probe.shifted_end_date
       THEN LET current_end ==
                  IF probe.current_start + probe.delta < probe.shifted_end_date
                    THEN probe.current_start + probe.delta
                  ELSE probe.shifted_end_date
            IN probe' = [probe EXCEPT
                           !.result = Append(@, DateRange(probe.current_start, current_end)),
                           !.current_start = next_start(current_end)]
     ELSE probe' = [probe EXCEPT !.pc = "returned"]
  /\ UNCHANGED <<self_name, securities, cache, call, bulk, mapping, rateVars>>

NextLoop == EnterGetDates \/ WhileGetDates

\* The loop is sequential code: once entered it keeps running.
SpecLoop == InitLimiter /\ [][NextLoop]_vars /\ WF_vars(WhileGetDates)

\* ------------------------------------------------- get_file_path, directly
SecASB == Security(<<"A", "S", "B">>, "equity", <<"A", "/", "B">>)
SecAB == Security(<<"A", "B">>, "equity", <<"A", "B">>)
SecNO2 == Security(<<"N", "O", "2">>, "fund", None)
\* Instruments of the mapping: two equities whose provider codes differ by a
\* slash, two funds without a provider code.
PathSecurities == {SecAAA, SecASB, SecAB, SecNOS, SecNO2}

\* get_file_path is asked for the files of two instruments.
GetFilePath ==
  /\ \E s1 \in PathSecurities, s2 \in PathSecurities, intraday \in BOOLEAN :
       probe' = [op |-> "get_file_path", first |-> s1, second |-> s2,
                 intraday |-> intraday,
                 first_path |-> get_file_path(s1, self_name, intraday, "price_history"),
                 second_path |-> get_file_path(s2, self_name, intraday, "price_history")]
  /\ UNCHANGED <<self_name, securities, cache, call, bulk, mapping, rateVars>>

NextPath == GetFilePath

SpecPath == Init /\ [][NextPath]_vars

\* ------------------------------------------- the cache store, used directly
\* The tables handed to _write_timeseries_to_local: empty, one row, two rows
\* in either order, two rows of one date; indexed by date or not.
StoreTables == {<<>>} \cup {t \in SeedTables : \A i \in 1..Len(t) : t[i].value = "v1"}
StoreFrames == {Frame(ix, 0, t) : ix \in {"as_of_date", "RangeIndex"}, t \in StoreTables}

StoreProbe(op, security, df, again, written) ==
  [op |-> op, security |-> security, df |-> df, before |-> cache,
   again |-> again, written |-> written]

\* _write_timeseries_to_local(security, df)
WriteTimeseries ==
  /\ \E i \in 1..Len(securities), df \in StoreFrames :
       /\ cache' = _write_timeseries_to_local(securities[i], df)
       /\ probe' = StoreProbe("write", securities[i], df,
                              /\ probe.op = "write"
                              /\ probe.security = securities[i]
                              /\ probe.df = df,
                              <<>>)
  /\ UNCHANGED <<self_name, securities, call, bulk, mapping, rateVars>>

\* _read_timeseries_from_local(security); `written` is the table the call
\* before wrote to the same file, if it was a write.
ReadTimeseries ==
  /\ \E i \in 1..Len(securities) :
       probe' = StoreProbe("read", securities[i],
                           _read_timeseries_from_local(securities[i]), FALSE,
                           IF probe.op = "write" /\ probe.security = securities[i]
                             THEN <<probe.df>> ELSE <<>>)
  /\ UNCHANGED <<self_name, securities, cache, call, bulk, mapping, rateVars>>

\* _write_timeseries_to_local(security, _read_timeseries_from_local(security))
WriteBack ==
  /\ \E i \in 1..Len(securities) :
       LET df == _read_timeseries_from_local(securities[i])
       IN /\ df.unnamed < MaxUnnamed
          /\ cache' = _write_timeseries_to_local(securities[i], df)
          /\ probe' = StoreProbe("write_back", securities[i], df, FALSE, <<>>)
  /\ UNCHANGED <<self_name, securities, call, bulk, mapping, rateVars>>

InitStore ==
  /\ self_name \in all_datasource
  /\ securities = <<SecAAA>>
  /\ cache = <<>>
  /\ call = NoCall
  /\ bulk = NoBulk
  /\ probe = NoProbe
  /\ mapping = InitMapping
  /\ InitRate

NextStore == WriteTimeseries \/ ReadTimeseries \/ WriteBack

SpecStore == InitStore /\ [][NextStore]_vars

NextLimiter == Tick \/ RespectRateLimit

SpecLimiter == InitLimiter /\ [][NextLimiter]_vars

\* ------------------------------------- the limiter seen through instances
\* Two TwelveDataDataSource objects, as update_all_price_history and a user
\* script each construct their own.
Instances == {"ds1", "ds2"}

\* Mutant: the limiter attributes are kept on the instance.
cls_of_self(instance) == instance

\* cls = self.__class__: the object whose attributes the limiter reads and
\* writes.
cls(instance) == "TwelveDataDataSource"

\* window_start and request_counter as found on an object.
LimiterAttrs(ws, rc) == [window_start |-> ws, request_counter |-> rc]

\* _respect_rate_limit called on one instance.
RespectRateLimitOn ==
  \E instance \in Instances :
    LET holder == cls(instance)
        attrs == IF probe.op = "instances" THEN probe.attrs
                 ELSE [o \in Instances \cup {"TwelveDataDataSource"} |->
                         LimiterAttrs(window_start, request_counter)]
        since == IF probe.op = "instances" THEN probe.since_reset ELSE 0
    IN \E r \in _respect_rate_limit(attrs[holder].window_start,
                                     attrs[holder].request_counter, now) :
         LET attrs1 == [attrs EXCEPT
                          ![holder] = LimiterAttrs(r.window_start, r.request_counter)]
             class1 == attrs1["TwelveDataDataSource"]
         IN /\ r.woke <= MaxTime
            /\ now' = r.woke
            /\ window_start' = class1.window_start
            /\ request_counter' = class1.request_counter
            /\ admitted' = Append(Recent(admitted, r.woke), r.woke)
            /\ probe' = [op |-> "instances", instance |-> instance, attrs |-> attrs1,
                         since_reset |-> IF class1.window_start # window_start
                                           THEN 1 ELSE since + 1]
            /\ UNCHANGED <<syncVars, mapping>>

NextInstances == Tick \/ RespectRateLimitOn

SpecInstances == InitLimiter /\ [][NextInstances]_vars

\* ----------------------------------- the requests Twelve Data methods send
\* The most requests one run sends.
MaxRequests == 10

\* The limiter attributes, the clock and the counts of admissions granted
\* and of requests sent so far.
Traffic ==
  [now |-> now, window_start |-> window_start, request_counter |-> request_counter,
   admitted |-> admitted,
   admissions |-> IF probe.op = "none" THEN 0 ELSE probe.admissions,
   requests |-> IF probe.op = "none" THEN 0 ELSE probe.requests]

\* self._respect_rate_limit()
admit(st) ==
  {[st EXCEPT !.now = r.woke, !.window_start = r.window_start,
              !.request_counter = r.request_counter,
              !.admitted = Append(Recent(st.admitted, r.woke), r.woke),
              !.admissions = @ + 1] :
     r \in _respect_rate_limit(st.window_start, st.request_counter, st.now)}

\* One HTTP request leaves the process (self._request or a TDClient call).
send(st) == [st EXCEPT !.requests = @ + 1]

\* n times in a row: an admission, then a request.
RECURSIVE admitted_requests(_, _)
admitted_requests(n, sts) ==
  IF n = 0 THEN sts
  ELSE admitted_requests(n - 1, UNION {{send(a) : a \in admit(st)} : st \in sts})

\* The entity types available_data has an endpoint for.
available_entities ==
  {"currency_cross", "equity", "crypto", "fund", "bond", "etf", "commodity", "exchange"}

\* TwelveDataDataSource.available_data
available_data(entity_type, st) ==
  IF entity_type \in available_entities THEN send(st) ELSE st

\* TwelveDataDataSource.usage
usage(st) == admitted_requests(1, {st})

\* TwelveDataDataSource.earliest_date
earliest_date(st) == admitted_requests(1, {st})

\* TwelveDataDataSource._time_series: one admission and one request per window.
_time_series(start_date, end_date, intraday, st) ==
  admitted_requests(Len(_get_dates(start_date, end_date, intraday)), {st})

\* The available_data lookups of _update_security_mapping, one per type.
RECURSIVE available_data_each(_, _)
available_data_each(types, st) ==
  IF types = {} THEN st
  ELSE LET t == CHOOSE x \in types : TRUE
       IN available_data_each(types \ {t}, available_data(t, st))

\* TwelveDataDataSource._update_security_mapping for mapping rows of the given
\* types: one lookup per type, then earliest_date for every row, intraday
\* and daily.
twelve_update_security_mapping(rows, st) ==
  admitted_requests(2 * Len(rows),
                    {available_data_each({rows[i] : i \in 1..Len(rows)}, st)})

\* The entity types of the rows of a mapping table.
MappingTypes == {<<"equity">>, <<"fund">>, <<"equity", "equity">>, <<"equity", "fund">>}

\* The state after a method of the Twelve Data provider returned.
Sent(method, st) ==
  /\ st.now <= MaxTime
  /\ st.requests <= MaxRequests
  /\ now' = st.now
  /\ window_start' = st.window_start
  /\ request_counter' = st.request_counter
  /\ admitted' = st.admitted
  /\ probe' = [op |-> method, admissions |-> st.admissions, requests |-> st.requests]
  /\ UNCHANGED <<syncVars, mapping>>

Usage == \E st \in usage(Traffic) : Sent("usage", st)

EarliestDate == \E st \in earliest_date(Traffic) : Sent("earliest_date", st)

AvailableData ==
  \E entity_type \in {"equity", "composite"} :
     \E st \in {available_data(entity_type, Traffic)} : Sent("available_data", st)

TimeSeries ==
  \E span \in {0, output_size} :
     \E st \in _time_series(0, span * DayMinutes, FALSE, Traffic) :
        Sent("_time_series", st)

TwelveUpdateSecurityMapping ==
  \E rows \in MappingTypes :
     \E st \in twelve_update_security_mapping(rows, Traffic) :
        Sent("_update_security_mapping", st)

NextRequests ==
  \/ Tick
  \/ Usage
  \/ EarliestDate
  \/ AvailableData
  \/ TimeSeries
  \/ TwelveUpdateSecurityMapping

SpecRequests == InitLimiter /\ [][NextRequests]_vars

\* ================================================================= claims
Called == call.phase # "idle"
Done == call.phase = "done"
\* The cache file of the security of the call, as it is now
FileNow == _read_timeseries_from_local(call.security).rows
ExistsNow == price_history_path(call.security) \in DOMAIN cache
\* The rows the fetches of the call returned
Fetched == concat(call.df_to_concat)
InRange(d, r) == r.start_date <= d /\ d <= r.end_date
ProviderErrors ==
  {"AlphaVantageException", "TwelveDataException", "DataSourceMethodException"}

\* C1: no interval of 60 seconds contains more than max_requests_per_minute
\* admitted requests.
C1_SlidingWindowLimit == Len(admitted) <= max_requests_per_minute

\* The cache of the call covers its desired range.
Covered ==
  /\ Called /\ ~call.intraday /\ ~call.local_only
  /\ call.desired # <<>>
  /\ call.df_local # <<>>
  /\ SeqMin(call.df_local) <= call.desired[1].start_date
  /\ SeqMax(call.df_local) >= call.desired[1].end_date

BothGaps ==
  /\ Called /\ ~call.intraday /\ ~call.local_only
  /\ call.desired # <<>>
  /\ call.df_local # <<>>
  /\ call.desired[1].start_date < SeqMin(call.df_local)
  /\ SeqMax(call.df_local) < call.desired[1].end_date

\* C3 as stated: exactly two dispatches, [d1, d2) and (d4, d5], and no
\* dispatched range contains a date of the cached interval [d2, d4].
C3_HalfOpenGaps ==
  (BothGaps /\ Done /\ call.failed = <<>>) =>
     /\ Len(call.dispatched) = 2
     /\ \A i \in 1..Len(call.dispatched) :
          \A d \in SeqMin(call.df_local)..SeqMax(call.df_local) :
             ~InRange(d, call.dispatched[i])

\* C3 as amended: the dispatches are the closed ranges [d1, d2] and [d4, d5],
\* in this order, the second made only when the first fetch did not raise;
\* they contain no date strictly between d2 and d4, and each contains the
\* cached boundary date it starts or ends on.
C3_ClosedGaps ==
  BothGaps =>
    LET d2 == SeqMin(call.df_local)
        d4 == SeqMax(call.df_local)
        lower == DateRange(call.desired[1].start_date, d2)
        upper == DateRange(d4, call.desired[1].end_date)
    IN /\ call.dispatched \in {<<lower>>, <<lower, upper>>}
       /\ (Done /\ call.failed = <<>>) => call.dispatched = <<lower, upper>>
       /\ \A i \in 1..Len(call.dispatched) :
            \A d \in (d2 + 1)..(d4 - 1) : ~InRange(d, call.dispatched[i])

C3_Witness ==
  /\ BothGaps /\ Done /\ call.failed = <<>>
  /\ call.outcome = "returned"
  /\ Len(call.dispatched) = 2
  /\ SeqMin(call.df_local) < SeqMax(call.df_local)
  /\ InRange(SeqMin(call.df_local), call.dispatched[1])
  /\ InRange(SeqMax(call.df_local), call.dispatched[2])

\* C4: when a fetched row and a cached row have the same date and different
\* values, the merged table, which is the table written to the cache, has
\* exactly one row for that date and it carries the fetched value.
C4_FreshRowWins ==
  (Done /\ call.outcome = "returned") =>
    \A f \in RowsOf(Fetched), c \in RowsOf(call.df_local) :
      (f.as_of_date = c.as_of_date /\ f.value # c.value) =>
         /\ call.returned = FileNow
         /\ {r \in RowsOf(call.returned) : r.as_of_date = f.as_of_date} = {f}
         /\ Cardinality({i \in 1..Len(call.returned) :
                           call.returned[i].as_of_date = f.as_of_date}) = 1

\* C5: every cache file has pairwise distinct dates in ascending order.
C5_CacheUniqueAndSorted ==
  \A p \in DOMAIN cache :
    \A i \in 1..(Len(cache[p].rows) - 1) :
       cache[p].rows[i].as_of_date < cache[p].rows[i + 1].as_of_date

\* C6: after a call, the dates of the cache file are the dates cached before
\* the call together with the dates of the fetched rows: no date is dropped.
C6_NoDateDropped ==
  (Done /\ call.outcome = "returned") =>
     DatesOf(FileNow) = DatesOf(call.df_local) \cup DatesOf(Fetched)

\* The only fetch of the call raised a provider error the sync catches.
OnlyFetchFailed ==
  /\ Done
  /\ Len(call.dispatched) = 1
  /\ Len(call.failed) = 1
  /\ call.error \in ProviderErrors

C8_BulkNeverRaises ==
  /\ bulk.status # "raised"
  /\ bulk.status = "returned" =>
       DOMAIN bulk.di = {securities[i].code : i \in 1..Len(securities)}

\* C9: for a security whose entity_type is no configured category, a call
\* that reaches a remote fetch raises KeyError to the caller and leaves the
\* cache unchanged.
C9_UnconfiguredCategoryRaises ==
  (Called /\ call.security.entity_type \notin ts_method_dict
          /\ call.dispatched # <<>>) =>
     /\ Done
     /\ call.outcome = "KeyError"
     /\ ~call.wrote
     /\ cache = call.before

C9_Witness ==
  /\ Done
  /\ call.security.entity_type = "composite"
  /\ Len(call.dispatched) = 1
  /\ call.outcome = "KeyError"

\* C10: a call with intraday=True fails with DataSourceMethodException, for
\* every provider and with or without local_only, before anything is
\* dispatched and without a cache file created or changed.
C10_IntradayFailsFast ==
  (Called /\ call.intraday) =>
     /\ Done
     /\ call.outcome = "DataSourceMethodException"
     /\ call.dispatched = <<>>
     /\ ~call.wrote
     /\ cache = call.before

C10_Witness ==
  /\ Done /\ call.intraday /\ call.local_only
  /\ call.outcome = "DataSourceMethodException"
  /\ self_name = "yahoo_finance"
  /\ call.before # <<>>
  /\ cache = call.before

\* C11: a call with local_only=True dispatches nothing, returns exactly the
\* rows of the cache file as they were stored, and leaves every cache file as
\* it was, whatever the file holds.
C11_LocalOnlyReadsOnly ==
  (Done /\ call.local_only /\ ~call.intraday) =>
     /\ call.outcome = "returned"
     /\ call.dispatched = <<>>
     /\ call.returned = call.df_local
     /\ cache = call.before

\* t deduplicated by as_of_date and sorted ascending by date
IsDedupedAndSorted(r, t) ==
  /\ \A i \in 1..(Len(r) - 1) : r[i].as_of_date < r[i + 1].as_of_date
  /\ DatesOf(r) = DatesOf(t)
  /\ RowsOf(r) \subseteq RowsOf(t)

\* C12: for the cache store operations, writing back the table just read
\* leaves the files unchanged; a read after a write of T returns T
\* deduplicated by date and sorted by date; writing the same table a second
\* time leaves the file as the first write left it.
C12_StoreRoundTrip ==
  /\ probe.op = "write_back" => cache = probe.before
  /\ (probe.op = "read" /\ probe.written # <<>>) =>
        IsDedupedAndSorted(probe.df.rows, probe.written[1].rows)
  /\ (probe.op = "write" /\ probe.again) => cache = probe.before

\* A call that returned and during which the remote yielded no new row: every
\* row fetched is a row of the cache file, as the call before left it.
NothingNew ==
  /\ Done /\ call.outcome = "returned"
  /\ RowsOf(Fetched) \subseteq RowsOf(call.df_local)

\* C13: a call during which the remote yields no new row leaves the cache
\* file with the rows the call before left in it, each once, and creates no
\* file when there was none: the file after the second of two such calls is
\* the file after the first.
C13_SecondCallSameFile ==
  NothingNew =>
     /\ RowsOf(FileNow) = RowsOf(call.df_local)
     /\ Len(FileNow) = Len(call.df_local)
     /\ ExistsNow = call.existed

C13_Witness ==
  /\ NothingNew
  /\ Len(call.dispatched) = 2
  /\ Len(Fetched) = 2
  /\ call.wrote
  /\ Len(call.df_local) = 2
  /\ FileNow = call.df_local

\* C14: two instruments with different codes (same provider, series, entity
\* type and frequency) have different cache file paths, for every provider.
C14_PathInjective ==
  (/\ probe.op = "get_file_path"
   /\ probe.first.code # probe.second.code
   /\ probe.first.entity_type = probe.second.entity_type) =>
     probe.first_path # probe.second_path

\* C15: the desired end date of a call is before today for every provider,
\* and with a non-empty cache Yahoo Finance and Alpha Vantage ask for the
\* range from the earliest cached date to the day before today.
C15_EndBeforeToday ==
  (Called /\ call.desired # <<>>) =>
     /\ call.desired[1].end_date < today_midnight
     /\ (self_name \in {"yahoo_finance", "alpha_vantage"} /\ call.df_local # <<>>) =>
          call.desired[1] = DateRange(SeqMin(call.df_local), today_midnight - 1)

\* The time unit of a frequency, in minutes
TimeUnit(intraday) == IF intraday THEN 1 ELSE DayMinutes

\* C16: the windows of _get_dates(start, end, intraday) are in ascending
\* order, the first begins at start, each later one begins at the time unit
\* right after the end of the one before, and every date of [start, end] lies
\* in a window; for the daily and for the intraday frequency.
C16_WindowsContiguous ==
  probe.op = "_get_dates" =>
    LET w == probe.result
    IN /\ w # <<>>
       /\ w[1].start_date = probe.start_date
       /\ \A i \in 1..Len(w) : w[i].start_date <= w[i].end_date
       /\ \A i \in 1..(Len(w) - 1) :
            w[i + 1].start_date = w[i].end_date + TimeUnit(probe.intraday)
       /\ \A day \in (probe.start_date \div DayMinutes)..(probe.end_date \div DayMinutes) :
            \E i \in 1..Len(w) : InRange(day * DayMinutes, w[i])

\* The call ended after _default_start_and_end_date of Twelve Data raised
\* TwelveDataException for the missing start date.
MissingStartDate ==
  /\ self_name = "twelve_data"
  /\ Done
  /\ call.error = "TwelveDataException"
  /\ call.dispatched = <<>>

\* The result of the call has been recorded in the map of the run.
Recorded ==
  /\ bulk.status \in {"running", "returned"}
  /\ ~bulk.waiting
  /\ call.security.code \in DOMAIN bulk.di

\* C17 as stated: when Twelve Data has no earliest date for a symbol and no
\* start_date is given, the TwelveDataException does not leave
\* get_price_history, the run of update_price_history goes on, and the
\* security is recorded as False in the map.
C17_MissingStartRecordedFalse ==
  MissingStartDate =>
     /\ call.outcome = "returned"
     /\ bulk.status # "raised"
     /\ (~bulk.waiting /\ call.security.code \in DOMAIN bulk.di) =>
          bulk.di[call.security.code] = FALSE

\* C17 as amended: the TwelveDataException for the missing start date does
\* not leave get_price_history, which returns the cached rows and fetches
\* nothing; the run of update_price_history goes on and records the security
\* as False when it has no cached rows and as True when it has some.
C17_MissingStartRecordedByCache ==
  MissingStartDate =>
     /\ call.outcome = "returned"
     /\ call.returned = call.df_local
     /\ call.df_to_concat = <<>>
     /\ bulk.status # "raised"
     /\ Recorded => bulk.di[call.security.code] = (call.df_local # <<>>)

C17_Witness ==
  /\ MissingStartDate
  /\ Recorded
  /\ call.df_local # <<>>
  /\ bulk.di[call.security.code] = TRUE
  /\ bulk.idx = 2

\* The datasources without a mapping endpoint
NoMappingEndpoint == {"alpha_vantage", "bloomberg", "financial_times", "local"}

\* C18: update_security_mapping of a datasource whose _update_security_mapping
\* raises DataSourceMethodException does not raise, returns an empty table
\* and leaves the mapping files as they were; update_all_security_mapping
\* records False for it and goes on to the next datasource.
C18_NoEndpointRecordedFalse ==
  /\ (probe.op \in {"update_security_mapping", "update_all_security_mapping"}
      /\ probe.name \in NoMappingEndpoint) =>
        /\ probe.raised = "none"
        /\ probe.status # "raised"
        /\ probe.df = <<>>
        /\ mapping = probe.before
  /\ probe.op = "update_all_security_mapping" =>
        /\ \A i \in 1..(probe.idx - 1) :
             /\ datasource_order[i] \in DOMAIN probe.di
             /\ datasource_order[i] \in NoMappingEndpoint =>
                  probe.di[datasource_order[i]] = FALSE
        /\ probe.name \in NoMappingEndpoint =>
             /\ probe.idx = 1 + CHOOSE i \in 1..Len(datasource_order) :
                                   datasource_order[i] = probe.name
             /\ probe.status = "running"

C18_Witness ==
  /\ probe.op = "update_all_security_mapping"
  /\ probe.status = "returned"
  /\ probe.di["local"] = FALSE
  /\ probe.di["yahoo_finance"] = TRUE
  /\ mapping["local"] = LocalMapping
  /\ mapping["alpha_vantage"] = OldMapping

\* C19: a load method of the local datasource ends with SecurityMappingError
\* exactly when the rows selected for the code number zero or more than one;
\* with exactly one row, load_security and load_portfolio return the fields
\* of that row that are not null.
C19_LoadRaisesUnlessOneRow ==
  probe.op \in LoadOps =>
     /\ (probe.raised = "SecurityMappingError") <=> (Len(probe.selected) # 1)
     /\ (Len(probe.selected) = 1 /\ probe.op # "load_generic_security") =>
          /\ probe.raised = "none"
          /\ DOMAIN probe.di = {f \in DOMAIN probe.selected[1] : probe.selected[1][f] # NaN}
          /\ \A f \in DOMAIN probe.di : probe.di[f] = probe.selected[1][f]

C19_Witness ==
  /\ probe.op = "load_security"
  /\ Len(probe.selected) = 1
  /\ probe.selected[1].name = NaN
  /\ probe.raised = "none"
  /\ "name" \notin DOMAIN probe.di
  /\ probe.di["multiplier"] = "1.0"

\* A daily call that found no cache file and got no row from the remote:
\* nothing was fetched, or every fetch returned an empty table, or the
\* provider error was one the sync catches.
NoFileNoRows ==
  /\ Done /\ ~call.intraday
  /\ ~call.existed
  /\ Fetched = <<>>
  /\ call.error \in {"none"} \cup ProviderErrors

\* C20: get_price_history never writes an empty table: a call that finds no
\* cache file and gets no row from the remote, or is local_only, returns an
\* empty table without raising and creates no file; every cache file has at
\* least one row.
C20_NeverWritesEmpty ==
  /\ \A p \in DOMAIN cache : cache[p].rows # <<>>
  /\ NoFileNoRows =>
       /\ call.outcome = "returned"
       /\ call.returned = <<>>
       /\ ~call.wrote
       /\ ~ExistsNow
       /\ cache = call.before

C20_Witness ==
  /\ NoFileNoRows
  /\ ~call.local_only
  /\ call.dispatched # <<>>
  /\ call.failed = <<>>
  /\ call.df_to_concat = << <<>> >>
  /\ call.returned = <<>>
  /\ ~ExistsNow

\* A step that resets the window: window_start is set anew.
WindowReset == window_start' # window_start

\* A step that admits a request.
Admits == admitted' = Append(Recent(admitted, now'), now')

\* What one step of the limiter may do to the class attributes.
LimiterStep ==
  /\ Admits => (request_counter' = (IF WindowReset THEN 0 ELSE request_counter) + 1)
  /\ ~Admits => (request_counter' = request_counter /\ ~WindowReset)
  /\ WindowReset => (now' - window_start >= WindowSeconds)

\* C21: in every state of a run of _respect_rate_limit calls the counter is
\* between 0 and max_requests_per_minute; a call leaves the counter one above
\* what it was, or at one when it reset the window; the window is reset only
\* when at least WindowSeconds seconds have passed since window_start; so no
\* more than max_requests_per_minute calls are admitted between two resets.
C21_CounterBounded ==
  [](0 <= request_counter /\ request_counter <= max_requests_per_minute)
    /\ [][LimiterStep]_vars

C21_Witness ==
  /\ request_counter = max_requests_per_minute
  /\ window_start >= WindowSeconds
  /\ now > window_start

\* The limiter attributes an instance sees.
Seen(instance) == probe.attrs[cls(instance)]

\* C22: window_start and request_counter are shared by all instances: after an
\* admission through one instance every instance sees the same window and the
\* same count, and the admissions of all instances since the last reset of
\* the window are never more than max_requests_per_minute.
C22_SharedAcrossInstances ==
  probe.op = "instances" =>
    /\ \A i, j \in Instances : Seen(i) = Seen(j)
    /\ \A i \in Instances :
         Seen(i) = LimiterAttrs(window_start, request_counter)
    /\ probe.since_reset <= max_requests_per_minute

C22_Witness ==
  /\ probe.op = "instances"
  /\ probe.instance = "ds2"
  /\ probe.since_reset = max_requests_per_minute
  /\ Seen("ds1").request_counter = max_requests_per_minute
  /\ window_start >= WindowSeconds

\* C23: every outbound request of the Twelve Data provider follows an
\* admission of its own: the requests sent never outnumber the admissions
\* granted.
C23_RequestsAdmitted ==
  probe.op # "none" => probe.requests <= probe.admissions

\* The end of the buffered range of the last _get_dates call
shifted_end_date == probe.end_date + 2 * DayMinutes

\* C24: for start <= end the last window of _get_dates ends exactly two days
\* after end and every earlier window ends before that; when the range from
\* start to end + 2 days is no longer than output_size days the result is
\* the single window (start, end + 2 days).
C24_BufferOnLastWindow ==
  probe.op = "_get_dates" =>
    LET w == probe.result
    IN /\ w # <<>>
       /\ w[Len(w)].end_date = shifted_end_date
       /\ \A i \in 1..(Len(w) - 1) : w[i].end_date < shifted_end_date
       /\ (shifted_end_date - probe.start_date <= (output_size - 1) * DayMinutes) =>
             (w = <<DateRange(probe.start_date, shifted_end_date)>>)

\* The same for the daily frequency alone
C24_DailyBuffer == (probe.op = "_get_dates" /\ probe.intraday) \/ C24_BufferOnLastWindow

\* The calendar days of a window, both endpoints counted
CalendarDays(window) ==
  (window.end_date \div DayMinutes) - (window.start_date \div DayMinutes) + 1

\* C25: every daily window of _get_dates covers at most output_size calendar
\* days, its two endpoints counted.
C25_DailyWindowWithinPage ==
  (probe.op = "_get_dates" /\ ~probe.intraday) =>
    \A i \in 1..Len(probe.result) : CalendarDays(probe.result[i]) <= output_size

C25_Witness ==
  /\ probe.op = "_get_dates"
  /\ ~probe.intraday
  /\ Len(probe.result) = 2
  /\ CalendarDays(probe.result[1]) = output_size
  /\ CalendarDays(probe.result[2]) > 1

\* The loop of _get_dates is running.
InLoop == probe.op = "loop" /\ probe.pc = "while"

\* _get_dates returned a list with at least one window.
ReturnedWindows == probe.op = "loop" /\ probe.pc = "returned" /\ Len(probe.result) >= 1

\* A pass through the loop body moves current_start forward and adds one
\* window.
LoopAdvances ==
  (InLoop /\ probe'.op = "loop" /\ probe'.pc = "while") =>
     /\ probe'.current_start > probe.current_start
     /\ Len(probe'.result) = Len(probe.result) + 1

\* C30: for every start <= end and every output_size >= 1 each pass through
\* the loop of _get_dates strictly advances current_start, and the loop ends:
\* the function returns a list of at least one window.
C30_LoopTerminates ==
  [][LoopAdvances]_vars /\ (InLoop ~> ReturnedWindows)

C30_Witness ==
  /\ probe.op = "loop"
  /\ probe.pc = "returned"
  /\ probe.output_size = 1
  /\ Len(probe.result) >= 3

\* The call is the repetition of a call whose fetches all returned, for
\* the same instrument and the same desired range.
Repeated ==
  /\ probe.op = "repeat"
  /\ call.security = probe.security
  /\ call.desired = probe.desired

\* C29: the call repeated right after a call whose gap fetches all succeeded
\* dispatches nothing, whatever the provider had answered.
C29_RepeatDispatchesNothing == Repeated => call.dispatched = <<>>

\* full_update was called without a start_date and is in the loop of
\* update_price_history, in a call that reached the gap computation.
FullDefault ==
  /\ probe.op = "full_update" /\ probe.pc = "loop"
  /\ probe.start_date = NoneDate
  /\ bulk.status = "running" /\ bulk.waiting
  /\ Called /\ ~call.intraday
  /\ internal_mapping_code(call.security) # None

\* The call went the way a call of update_price_history() without a
\* start_date goes: the same desired range, or the same exception of
\* _default_start_and_end_date.
AsWithoutStartDate ==
  \E earliest \in EarliestChoices :
     LET r == _default_start_and_end_date(call.df_local, <<>>, earliest)
     IN IF r.raised # "none"
          THEN call.desired = <<>> /\ call.error = r.raised
        ELSE call.desired = <<DateRange(r.start_date, r.end_date)>>

\* C27: full_update() without a start_date synchronizes every instrument over
\* the desired range of update_price_history() without a start_date; the gap
\* computation never gets None as its start boundary.
C27_FullUpdateDefaultRange ==
  FullDefault =>
    /\ AsWithoutStartDate
    /\ call.desired # <<>> => call.desired[1].start_date # NoneDate

\* A daily call with the provider allowed, for an instrument without a code
\* for the datasource, has ended.
NoProviderCode ==
  /\ Done /\ ~call.intraday /\ ~call.local_only
  /\ internal_mapping_code(call.security) = None

\* The rows of the cache file of a security in a file system
FileRows(files, security) ==
  IF price_history_path(security) \in DOMAIN files
    THEN RowsOf(files[price_history_path(security)].rows) ELSE {}

\* C28: for an instrument without a provider code the call dispatches
\* nothing, does not raise, returns the cached rows and leaves the rows of the
\* cache file of every other instrument as they were.
C28_NoCodeReturnsCache ==
  NoProviderCode =>
    /\ call.dispatched = <<>>
    /\ call.df_to_concat = <<>>
    /\ call.outcome = "returned"
    /\ RowsOf(call.returned) = RowsOf(call.df_local)
    /\ \A i \in 1..Len(securities) :
         securities[i] # call.security =>
           FileRows(cache, securities[i]) = FileRows(call.before, securities[i])

====
